---- MODULE Spec2Model ----
(***************************************************************************)
(* PyHRGetBasinData: the basin data acquisition pipeline.                  *)
(*                                                                         *)
(* The disk (the data directory, the boundary index file, the per-basin    *)
(* output files), the remote services, and the sessions that run main()    *)
(* of app_streamlit.py or call get_huc10_geometry / the fetchers directly. *)
(* A session's run is cut at its I/O calls: one action per call.           *)
(***************************************************************************)
EXTENDS Naturals, Sequences, FiniteSets

\* ---------------------------------------------------------------- bounds

NumSessions == 2
MaxWbdVer == 2

\* ------------------------------------------------------------- config.py

CRS_GEO == 4326
CRS_UTM == 32612
DEM_RES_M == 30
DATA_DIR == <<<<"data">>>>

\* ------------------------------------------------------------ the domain

Sessions == 1 .. NumSessions
\* Spec runs one session at a time: single logical request per invocation.
Solo == {1}
\* The ids the remote boundary service holds, and one it does not.
KnownIds == {"1502001602", "1502001603"}
AllIds == KnownIds \cup {"not-a-real-id"}
Sources == {"dem", "flowlines", "roads"}
RequestCRSs == {CRS_GEO, CRS_UTM}
\* The id column as the boundary service may name it.
RemoteIdCols == {"HUC10", "huc10"}
Outcomes == {"ok", "unavailable", "empty"}
WriteFailures == {"kept", "partial", "removed"}

None == [kind |-> "none"]
Partial == [kind |-> "partial"]

\* A polygon of the boundary service: which basin, as of which state of the
\* service's data, and the system its coordinates are expressed in.
Geometry(id, ver, c) == [kind |-> "geom", basin |-> id, ver |-> ver, crs |-> c]

\* GeoSeries([geom], crs=from).to_crs(to): the same polygon, its
\* coordinates expressed in the target system.
ToCrs(g, from, to) == IF g.crs = from THEN [g EXCEPT !.crs = to]
                                      ELSE [g EXCEPT !.crs = 0]

\* ------------------------------------------------------------- the disk

IndexPath == DATA_DIR \o <<<<"az_huc10.gpkg">>>>

Exists(files, path) == path \in DOMAIN files

WriteFile(files, path, content) ==
    [q \in DOMAIN files \cup {path} |-> IF q = path THEN content ELSE files[q]]

RemoveFile(files, path) == [q \in DOMAIN files \ {path} |-> files[q]]

\* The paths at which two states of the disk differ.
Diff(files, after) ==
    {q \in DOMAIN files \cup DOMAIN after :
        ~(q \in DOMAIN files /\ q \in DOMAIN after /\ files[q] = after[q])}

\* What a write that raised may leave at its path: the file as it was, a
\* partly written file, or nothing.
FailedWrite(files, path, how) ==
    CASE how = "kept" -> files
      [] how = "partial" -> WriteFile(files, path, Partial)
      [] how = "removed" -> RemoveFile(files, path)

\* ------------------------------------------------------- huc10_index.py

\* wbd10.bysql(...): every polygon of the region, in CRS_GEO (WBD(crs=CRS_GEO)).
RemoteIndex(ver, idcol) ==
    [kind |-> "gdf", crs |-> CRS_GEO, idcol |-> idcol, ids |-> KnownIds, ver |-> ver]

\* gdf.rename(columns={"HUC10": "huc10", "Name": "name"})
RenameColumns(gdf) ==
    IF gdf.idcol = "HUC10" THEN [gdf EXCEPT !.idcol = "huc10"] ELSE gdf

CacheHitNever(files) == FALSE

\* index_path.exists()
CacheHit(files) == Exists(files, IndexPath)

\* A file whose write raised holds an unreadable container or a layer with
\* no feature.
PartialIndex == [kind |-> "gdf", crs |-> CRS_GEO, idcol |-> "huc10",
                 ids |-> {},
                 ver |-> 0]

\* gpd.read_file(index_path): the frames it may return; none when it raises.
ReadIndex(files) ==
    IF files[IndexPath] = Partial THEN {None, PartialIndex}
    ELSE IF files[IndexPath].kind = "gdf" THEN {files[IndexPath]}
    ELSE {None}

LookupRowFirst(gdf, id) == IF gdf.idcol = "huc10" THEN gdf.ids ELSE {}

\* gdf.loc[gdf["huc10"] == huc10_id]
LookupRow(gdf, id) == IF gdf.idcol = "huc10" THEN gdf.ids \cap {id} ELSE {}

ResolveGeometryNoReproject(gdf, id, c) == Geometry(id, gdf.ver, gdf.crs)

\* row.geometry.iloc[0], reprojected when the index's system is not the
\* requested one.
ResolveGeometry(gdf, id, c) ==
    LET geom == Geometry(id, gdf.ver, gdf.crs)
    IN  IF gdf.crs # c THEN ToCrs(geom, gdf.crs, c) ELSE geom

\* --------------------------------------------- dem.py flowlines.py roads.py

GeomLLPassThrough(geometry, geometry_crs) == geometry

\* The geometry handed to the service: in CRS_GEO.
GeomLL(geometry, geometry_crs) ==
    IF geometry_crs # CRS_GEO THEN ToCrs(geometry, geometry_crs, CRS_GEO)
    ELSE geometry

\* The system a service answers in: py3dep's own for the raster, CRS_GEO
\* for NHDPlusHR(crs=CRS_GEO) and for OSMnx.
NativeCRSs(src) == IF src = "dem" THEN {CRS_GEO, CRS_UTM, 5070} ELSE {CRS_GEO}

\* The query a fetcher issues.
Query(src, geom_ll) ==
    IF src = "dem" THEN [src |-> src, geom |-> geom_ll, resolution |-> DEM_RES_M]
    ELSE [src |-> src, geom |-> geom_ll]

\* What the service holds for a polygon given in geographic coordinates.
ServiceResult(src, geom_ll, native) ==
    [kind |-> src, basin |-> geom_ll.basin, crs |-> native]

\* dem.rio.reproject(CRS_UTM) / fl.to_crs(CRS_UTM) / edges.to_crs(CRS_UTM)
ToProjected(result) == [result EXCEPT !.crs = CRS_UTM]

\* ------------------------------------------------------------ io_utils.py

HucOutputDirShared(huc10_id) == DATA_DIR \o <<<<"huc10_">>>>

\* Path(DATA_DIR) / f"huc10_{huc10_id}"
HucOutputDir(huc10_id) == DATA_DIR \o <<<<"huc10_", huc10_id>>>>

FileName(src) ==
    CASE src = "dem" -> <<"dem_30m.tif">>
      [] src = "flowlines" -> <<"flowlines.gpkg">>
      [] src = "roads" -> <<"roads.gpkg">>

\* out_dir / "<name>"
OutPath(out_dir, src) == out_dir \o <<FileName(src)>>

SaveKeepExisting(files, path, content) ==
    IF Exists(files, path) THEN files ELSE WriteFile(files, path, content)

\* to_file / to_raster: the file is replaced.
Save(files, path, content) == WriteFile(files, path, content)

\* ------------------------------------------------------- app_streamlit.py

\* Each artifact saved as soon as it is fetched.
MainNextSaveEach(stage) ==
    CASE stage = "dem" -> "mkdir"
      [] stage = "mkdir" -> "save_dem"
      [] stage = "save_dem" -> "flowlines"
      [] stage = "flowlines" -> "save_flowlines"
      [] stage = "save_flowlines" -> "roads"
      [] stage = "roads" -> "save_roads"
      [] stage = "save_roads" -> "done"

\* The calls of the download handler, in the order main() makes them.
MainNext(stage) ==
    CASE stage = "dem" -> "flowlines"
      [] stage = "flowlines" -> "roads"
      [] stage = "roads" -> "mkdir"
      [] stage = "mkdir" -> "save_dem"
      [] stage = "save_dem" -> "save_flowlines"
      [] stage = "save_flowlines" -> "save_roads"
      [] stage = "save_roads" -> "done"

OnFetchErrorContinue(stage) == MainNext(stage)

\* No handler surrounds the fetch calls: an exception leaves main().
OnFetchError(stage) == "failed"

\* ------------------------------------------------------------- the state

VARIABLES
    fs,             \* the files on disk: path -> content
    dirs,           \* the directories on disk
    wbdVer,         \* the state of the boundary service's data
    pc,             \* each session's place in its run
    loc,            \* each session's local values
    hist,           \* history: what each session's run and call did so far
    indexServed,    \* history: a load of the index has returned
    built,          \* history: the index as first written in full
    indexRewritten, \* history: the index was written in full a second time
    lastRun         \* history: the download that succeeded just before

vars == <<fs, dirs, wbdVer, pc, loc, hist, indexServed, built, indexRewritten, lastRun>>

indexHistory == <<indexServed, built, indexRewritten>>

NoArt == [s \in Sources |-> None]
NoPaths == [s \in Sources |-> <<>>]

Loc0 == [entry |-> "none", caller |-> "none", sel |-> "", crs |-> CRS_GEO,
         gdf |-> None, geom |-> None, art |-> NoArt, out_dir |-> <<>>,
         paths |-> NoPaths, err |-> None]

\* The run's history (the persistence calls made, the queries sent, the
\* files and directories changed) and the current index load's (the index
\* file as its exists() found it, whether a load had returned by then, the
\* query, the write, where the returned index came from).
Hist0 == [invoked |-> {}, sent |-> {}, changed |-> {}, made |-> {},
          idx0 |-> <<>>, served0 |-> FALSE, netq |-> FALSE, idxw |-> FALSE,
          via |-> "none"]

CallEntry(h) ==
    [h EXCEPT !.idx0 = <<>>, !.served0 = FALSE, !.netq = FALSE, !.idxw = FALSE,
              !.via = "none"]

\* What the load finds on disk at its exists().
Found(h) ==
    [h EXCEPT !.idx0 = IF IndexPath \in DOMAIN fs THEN <<fs[IndexPath]>> ELSE <<>>,
              !.served0 = indexServed]

Init ==
    /\ fs = <<>>
    /\ dirs = {}
    /\ wbdVer = 1
    /\ pc = [p \in Sessions |-> "idle"]
    /\ loc = [p \in Sessions |-> Loc0]
    /\ hist = [p \in Sessions |-> Hist0]
    /\ indexServed = FALSE
    /\ built = None
    /\ indexRewritten = FALSE
    /\ lastRun = None

\* An exception leaves the run at `stage`.
Raise(p, stage, kind) ==
    /\ pc' = [pc EXCEPT ![p] = "failed"]
    /\ loc' = [loc EXCEPT ![p].err = [stage |-> stage, kind |-> kind]]

Downloaded(p) ==
    pc[p] = "done" /\ loc[p].entry = "main" /\ loc[p].paths["roads"] # <<>>

\* --------------------------------------------------- the boundary service

\* The service's polygons change; nothing on this side is told.
WbdUpdate ==
    /\ wbdVer < MaxWbdVer
    /\ wbdVer' = wbdVer + 1
    /\ UNCHANGED <<fs, dirs, pc, loc, hist, indexHistory, lastRun>>

\* ------------------------------------------------------- the entry points

\* main(), to its first call: load_or_build_az_huc10_index() at line 57.
StartMain(p) ==
    /\ pc[p] = "idle"
    /\ pc' = [pc EXCEPT ![p] = "idx_check"]
    /\ loc' = [loc EXCEPT ![p] = [Loc0 EXCEPT !.entry = "main", !.caller = "main"]]
    /\ hist' = [hist EXCEPT ![p] = CallEntry(Hist0)]
    /\ UNCHANGED <<fs, dirs, wbdVer, indexHistory, lastRun>>

\* get_huc10_geometry(huc10_id, crs), to its call of load_or_build_az_huc10_index().
StartResolve(p) ==
    /\ pc[p] = "idle"
    /\ \E id \in AllIds, c \in RequestCRSs :
         loc' = [loc EXCEPT ![p] = [Loc0 EXCEPT !.entry = "resolve",
                                     !.caller = "resolve", !.sel = id, !.crs = c]]
    /\ pc' = [pc EXCEPT ![p] = "idx_check"]
    /\ hist' = [hist EXCEPT ![p] = CallEntry(Hist0)]
    /\ UNCHANGED <<fs, dirs, wbdVer, indexHistory, lastRun>>

\* The run is over (its script ended or its exception was shown); the
\* session is ready for the next one.
Return(p) ==
    /\ pc[p] \in {"done", "failed"}
    /\ lastRun' = IF Downloaded(p)
                  THEN [id |-> loc[p].sel, art |-> loc[p].art, paths |-> loc[p].paths]
                  ELSE IF pc[p] = "failed" THEN None ELSE lastRun
    /\ pc' = [pc EXCEPT ![p] = "idle"]
    /\ loc' = [loc EXCEPT ![p] = Loc0]
    /\ hist' = [hist EXCEPT ![p] = Hist0]
    /\ UNCHANGED <<fs, dirs, wbdVer, indexHistory>>

\* ------------------------------------- load_or_build_az_huc10_index()

ReturnTo(caller) == IF caller = "main" THEN "select" ELSE "lookup"

\* mkdir, exists(), and on a hit read_file.
IdxCheck(p) ==
    /\ pc[p] = "idx_check"
    /\ dirs' = dirs \cup {DATA_DIR}
    /\ IF CacheHit(fs)
       THEN \E gdf \in ReadIndex(fs) :
              IF gdf = None
              THEN /\ Raise(p, "idx_read", "ReadError")
                   /\ hist' = [hist EXCEPT ![p] =
                        [Found(@) EXCEPT !.made = @ \cup (dirs' \ dirs)]]
                   /\ UNCHANGED indexServed
              ELSE /\ pc' = [pc EXCEPT ![p] = ReturnTo(loc[p].caller)]
                   /\ loc' = [loc EXCEPT ![p].gdf = gdf]
                   /\ hist' = [hist EXCEPT ![p] =
                        [Found(@) EXCEPT !.via = "file",
                                         !.made = @ \cup (dirs' \ dirs)]]
                   /\ indexServed' = TRUE
       ELSE /\ pc' = [pc EXCEPT ![p] = "idx_fetch"]
            /\ hist' = [hist EXCEPT ![p] =
                 [Found(@) EXCEPT !.made = @ \cup (dirs' \ dirs)]]
            /\ UNCHANGED <<loc, indexServed>>
    /\ UNCHANGED <<fs, wbdVer, built, indexRewritten, lastRun>>

\* fetch_az_huc10_index(): the query of the boundary service and the rename.
IdxFetch(p) ==
    /\ pc[p] = "idx_fetch"
    /\ hist' = [hist EXCEPT ![p].netq = TRUE]
    /\ \E ok \in BOOLEAN, idcol \in RemoteIdCols :
         IF ok
         THEN /\ pc' = [pc EXCEPT ![p] = "idx_write"]
              /\ loc' = [loc EXCEPT ![p].gdf = RenameColumns(RemoteIndex(wbdVer, idcol))]
         ELSE Raise(p, "idx_fetch", "SourceUnavailable")
    /\ UNCHANGED <<fs, dirs, wbdVer, indexHistory, lastRun>>

\* gdf.to_file(index_path, driver="GPKG", layer="huc10") and the return.
IdxWrite(p) ==
    /\ pc[p] = "idx_write"
    /\ \/ /\ fs' = Save(fs, IndexPath, loc[p].gdf)
          /\ pc' = [pc EXCEPT ![p] = ReturnTo(loc[p].caller)]
          /\ hist' = [hist EXCEPT ![p].idxw = TRUE, ![p].via = "remote",
                                  ![p].changed = @ \cup Diff(fs, fs')]
          /\ indexServed' = TRUE
          /\ built' = IF built = None THEN loc[p].gdf ELSE built
          /\ indexRewritten' = (indexRewritten \/ built # None)
          /\ UNCHANGED loc
       \/ /\ \E how \in WriteFailures : fs' = FailedWrite(fs, IndexPath, how)
          /\ Raise(p, "idx_write", "PersistenceError")
          /\ hist' = [hist EXCEPT ![p].idxw = TRUE,
                                  ![p].changed = @ \cup Diff(fs, fs')]
          /\ UNCHANGED indexHistory
    /\ UNCHANGED <<dirs, wbdVer, lastRun>>

\* ------------------------------------------------------------ main()

\* Lines 59-69: the options are the ids of the loaded index; with none
\* selected the run ends, else get_huc10_geometry(selected, crs=CRS_GEO)
\* begins with its own call of load_or_build_az_huc10_index().
Select(p) ==
    /\ pc[p] = "select"
    /\ IF loc[p].gdf.ids = {}
       THEN /\ pc' = [pc EXCEPT ![p] = "done"]
            /\ UNCHANGED <<loc, hist>>
       ELSE /\ \E id \in loc[p].gdf.ids :
                 loc' = [loc EXCEPT ![p].sel = id, ![p].crs = CRS_GEO,
                                    ![p].caller = "resolve", ![p].gdf = None]
            /\ pc' = [pc EXCEPT ![p] = "idx_check"]
            /\ hist' = [hist EXCEPT ![p] = CallEntry(hist[p])]
    /\ UNCHANGED <<fs, dirs, wbdVer, indexHistory, lastRun>>

\* get_huc10_geometry, lines 49-56: the row of the id, or ValueError.
Lookup(p) ==
    /\ pc[p] = "lookup"
    /\ IF LookupRow(loc[p].gdf, loc[p].sel) = {}
       THEN Raise(p, "lookup", "NotFound")
       ELSE /\ loc' = [loc EXCEPT ![p].geom =
                         ResolveGeometry(loc[p].gdf, loc[p].sel, loc[p].crs)]
            /\ pc' = [pc EXCEPT ![p] =
                        IF loc[p].entry = "main" THEN "button" ELSE "done"]
    /\ UNCHANGED <<fs, dirs, wbdVer, hist, indexHistory, lastRun>>

\* Lines 73-85: the preview, and the button pressed or not.
Button(p) ==
    /\ pc[p] = "button"
    /\ \E clicked \in BOOLEAN :
         pc' = [pc EXCEPT ![p] = IF clicked THEN "dem" ELSE "done"]
    /\ UNCHANGED <<fs, dirs, wbdVer, loc, hist, indexHistory, lastRun>>

\* One fetcher's call on the values `start`: the geometry brought to
\* CRS_GEO, the query, the service's answer brought to CRS_UTM. A service
\* reads the coordinates it is given as geographic ones.
Fetch(p, start, h, src, geometry, geometry_crs, next) ==
    \E outcome \in Outcomes, native \in NativeCRSs(src) :
      LET geom_ll == GeomLL(geometry, geometry_crs)
          answer == IF geom_ll.crs = CRS_GEO THEN outcome ELSE "empty"
      IN  /\ hist' = [hist EXCEPT ![p] = [h EXCEPT !.sent = @ \cup {Query(src, geom_ll)}]]
          /\ IF answer = "ok"
             THEN /\ loc' = [loc EXCEPT ![p] = [start EXCEPT !.art[src] =
                       ToProjected(ServiceResult(src, geom_ll, native))]]
                  /\ pc' = [pc EXCEPT ![p] = next]
             ELSE /\ loc' = [loc EXCEPT ![p] = [start EXCEPT !.err =
                       [stage |-> src, kind |-> answer]]]
                  /\ pc' = [pc EXCEPT ![p] = OnFetchError(src)]

\* Line 88: get_dem_for_geometry(geometry_4326, geometry_crs=CRS_GEO)
FetchDem(p) ==
    /\ pc[p] = "dem"
    /\ Fetch(p, loc[p], hist[p], "dem", loc[p].geom, CRS_GEO, MainNext("dem"))
    /\ UNCHANGED <<fs, dirs, wbdVer, indexHistory, lastRun>>

\* Line 89: get_flowlines_for_geometry(geometry_4326, geometry_crs=CRS_GEO)
FetchFlowlines(p) ==
    /\ pc[p] = "flowlines"
    /\ Fetch(p, loc[p], hist[p], "flowlines", loc[p].geom, CRS_GEO, MainNext("flowlines"))
    /\ UNCHANGED <<fs, dirs, wbdVer, indexHistory, lastRun>>

\* Line 90: get_roads_for_geometry(geometry_4326, geometry_crs=CRS_GEO)
FetchRoads(p) ==
    /\ pc[p] = "roads"
    /\ Fetch(p, loc[p], hist[p], "roads", loc[p].geom, CRS_GEO, MainNext("roads"))
    /\ UNCHANGED <<fs, dirs, wbdVer, indexHistory, lastRun>>

\* A fetcher called on its own, with a geometry in the system it declares.
FetchApi(p) ==
    /\ pc[p] = "idle"
    /\ \E src \in Sources, id \in KnownIds, c \in RequestCRSs :
         Fetch(p, [Loc0 EXCEPT !.entry = "fetch", !.sel = id, !.crs = c,
                               !.geom = Geometry(id, wbdVer, c)],
               Hist0, src, Geometry(id, wbdVer, c), c, "done")
    /\ UNCHANGED <<fs, dirs, wbdVer, indexHistory, lastRun>>

\* Line 93: make_huc_output_dir(selected_huc10)
MakeDir(p) ==
    /\ pc[p] = "mkdir"
    /\ LET base == HucOutputDir(loc[p].sel)
       IN  \/ /\ dirs' = dirs \cup {DATA_DIR, base}
              /\ loc' = [loc EXCEPT ![p].out_dir = base]
              /\ pc' = [pc EXCEPT ![p] = MainNext("mkdir")]
           \/ /\ Raise(p, "mkdir", "PersistenceError")
              /\ UNCHANGED dirs
    /\ hist' = [hist EXCEPT ![p].invoked = @ \cup {"make_huc_output_dir"},
                            ![p].made = @ \cup (dirs' \ dirs)]
    /\ UNCHANGED <<fs, wbdVer, indexHistory, lastRun>>

\* One save_* call: the artifact written at its path under out_dir.
SaveArtifact(p, src, stage) ==
    LET path == OutPath(loc[p].out_dir, src)
    IN  /\ \/ /\ fs' = Save(fs, path, loc[p].art[src])
              /\ loc' = [loc EXCEPT ![p].paths[src] = path]
              /\ pc' = [pc EXCEPT ![p] = MainNext(stage)]
           \/ /\ \E how \in WriteFailures : fs' = FailedWrite(fs, path, how)
              /\ Raise(p, stage, "PersistenceError")
        /\ hist' = [hist EXCEPT ![p].invoked = @ \cup {stage},
                                ![p].changed = @ \cup Diff(fs, fs')]

\* Line 94: save_dem(dem_utm, out_dir)
SaveDem(p) ==
    /\ pc[p] = "save_dem"
    /\ SaveArtifact(p, "dem", "save_dem")
    /\ UNCHANGED <<dirs, wbdVer, indexHistory, lastRun>>

\* Line 95: save_flowlines(flow_utm, out_dir)
SaveFlowlines(p) ==
    /\ pc[p] = "save_flowlines"
    /\ SaveArtifact(p, "flowlines", "save_flowlines")
    /\ UNCHANGED <<dirs, wbdVer, indexHistory, lastRun>>

\* Line 96: save_roads(roads_utm, out_dir)
SaveRoads(p) ==
    /\ pc[p] = "save_roads"
    /\ SaveArtifact(p, "roads", "save_roads")
    /\ UNCHANGED <<dirs, wbdVer, indexHistory, lastRun>>

\* ------------------------------------------------------ specifications

Step(p) ==
    \/ StartMain(p) \/ StartResolve(p) \/ FetchApi(p) \/ Return(p)
    \/ IdxCheck(p) \/ IdxFetch(p) \/ IdxWrite(p)
    \/ Select(p) \/ Lookup(p) \/ Button(p)
    \/ FetchDem(p) \/ FetchFlowlines(p) \/ FetchRoads(p)
    \/ MakeDir(p) \/ SaveDem(p) \/ SaveFlowlines(p) \/ SaveRoads(p)

\* One session, its runs one after another.
Next == WbdUpdate \/ \E p \in Solo : Step(p)

Spec == Init /\ [][Next]_vars

\* Sessions that resolve a boundary at the same time.
ConcStep(p) ==
    \/ StartResolve(p) \/ Return(p)
    \/ IdxCheck(p) \/ IdxFetch(p) \/ IdxWrite(p) \/ Lookup(p)

ConcNext == WbdUpdate \/ \E p \in Sessions : ConcStep(p)

ConcSpec == Init /\ [][ConcNext]_vars

\* -------------------------------------------------------------- claims

FetchStages == {"dem", "flowlines", "roads"}
SaveStages == {"save_dem", "save_flowlines", "save_roads"}
PersistStages == {"mkdir"} \cup SaveStages
\* The index file now, as a load records it at its entry.
CurIdx == IF IndexPath \in DOMAIN fs THEN <<fs[IndexPath]>> ELSE <<>>
\* The load of the index that get_huc10_geometry made has returned.
Loaded(p) == loc[p].caller = "resolve" /\ hist[p].via # "none"
Fetched(p, s) == loc[p].art[s] # None /\ loc[p].art[s].kind = s
\* The three paths of a basin id, as the spec names them.
ExpectedPath(id, s) ==
    << <<"data">>, <<"huc10_", id>>,
       IF s = "dem" THEN <<"dem_30m.tif">>
       ELSE IF s = "flowlines" THEN <<"flowlines.gpkg">> ELSE <<"roads.gpkg">> >>

\* C1: a persistence call is made only once all three fetches have
\* returned an artifact, and a run whose fetcher raised has ended with that
\* error, has made no persistence call and has created or changed no
\* directory or file of the output.
C1_FetchFailureSkipsPersistence ==
    \A p \in Sessions :
      /\ (hist[p].invoked # {} \/ pc[p] \in PersistStages)
            => \A s \in Sources : Fetched(p, s)
      /\ (loc[p].err # None /\ loc[p].err.stage \in FetchStages)
            => /\ pc[p] = "failed"
               /\ loc[p].err.kind \in {"unavailable", "empty"}
               /\ hist[p].invoked = {}
               /\ hist[p].changed \subseteq {IndexPath}
               /\ hist[p].made \subseteq {DATA_DIR}

\* C1 witness: main() ended by the roads fetcher's error, after the other
\* two fetches had returned.
C1_Witness ==
    \E p \in Sessions :
      /\ pc[p] = "failed" /\ loc[p].entry = "main"
      /\ loc[p].err # None /\ loc[p].err.stage = "roads"
      /\ Fetched(p, "dem") /\ Fetched(p, "flowlines")
      /\ hist[p].invoked = {}

\* C2 as claimed: when a run ends in failure, at whatever step, the output
\* set that the download just before it persisted for the same id is still
\* on disk as that download left it.
C2_FailureKeepsPriorOutput ==
    \A p \in Sessions :
      (pc[p] = "failed" /\ lastRun # None /\ lastRun.id = loc[p].sel)
        => \A s \in Sources :
             /\ lastRun.paths[s] \in DOMAIN fs
             /\ fs[lastRun.paths[s]] = lastRun.art[s]

\* C2 as amended: a run that failed before its first save_* call (at the
\* index load, the lookup, a fetcher or the creation of the directory) has
\* called no save_* and changed no output file, and the prior output set of
\* its id is as the download before left it.
C2_FailureBeforeSaveKeepsOutput ==
    \A p \in Sessions :
      (pc[p] = "failed" /\ loc[p].err.stage \notin SaveStages)
        => /\ hist[p].invoked \cap SaveStages = {}
           /\ hist[p].changed \subseteq {IndexPath}
           /\ (lastRun # None /\ lastRun.id = loc[p].sel)
                => \A s \in Sources :
                     /\ lastRun.paths[s] \in DOMAIN fs
                     /\ fs[lastRun.paths[s]] = lastRun.art[s]

\* C2 witness: a download of an id failed at a fetcher right after a
\* download of the same id had succeeded.
C2_Witness ==
    \E p \in Sessions :
      /\ pc[p] = "failed" /\ loc[p].err.stage \in FetchStages
      /\ lastRun # None /\ lastRun.id = loc[p].sel
      /\ \A s \in Sources : fs[lastRun.paths[s]] = lastRun.art[s]

\* C3: a load that finds the index file reads it, queries nothing and
\* writes nothing; a load that finds none queries the service, writes the
\* whole answer as the file and returns it; once a load has returned, no
\* later load queries or writes.
C3_ReadThroughCache ==
    \A p \in Sessions :
      /\ (pc[p] \in {"idx_fetch", "idx_write"} \/ hist[p].netq \/ hist[p].idxw)
            => (hist[p].idx0 = <<>> /\ ~hist[p].served0)
      /\ hist[p].via = "file"
            => /\ hist[p].idx0 # <<>> /\ CurIdx = hist[p].idx0
               /\ ~hist[p].netq /\ ~hist[p].idxw
               /\ loc[p].caller = "resolve" /\ pc[p] = "lookup"
                    => \/ loc[p].gdf = hist[p].idx0[1]
                       \/ hist[p].idx0[1] = Partial /\ loc[p].gdf = PartialIndex
      /\ hist[p].via = "remote"
            => /\ hist[p].idx0 = <<>> /\ hist[p].netq /\ hist[p].idxw
               /\ CurIdx # <<>> /\ CurIdx[1].kind = "gdf"
               /\ CurIdx[1].ids = KnownIds /\ CurIdx[1].idcol = "huc10"
               /\ loc[p].caller = "resolve" /\ pc[p] = "lookup"
                    => loc[p].gdf = CurIdx[1]

\* C3 witness: a load made after a load had returned, and after the
\* service's data changed, returned the file's index as first written.
C3_Witness ==
    \E p \in Sessions :
      /\ pc[p] = "lookup" /\ hist[p].via = "file" /\ hist[p].served0
      /\ built # None /\ loc[p].gdf = built /\ built.ver < wbdVer
      /\ ~hist[p].netq

\* C4 as claimed: after a build of the index that failed (the query or the
\* write raised) no index file is on disk, so the next load builds again.
C4_FailedBuildLeavesNoIndex ==
    \A p \in Sessions :
      (pc[p] = "failed" /\ loc[p].err.stage \in {"idx_fetch", "idx_write"})
        => IndexPath \notin DOMAIN fs

\* C5 as claimed: get_huc10_geometry of an id that is not in the index
\* ends with the not-found error and no geometry, has queried no service,
\* and the index file is as the call found it.
C5_UnknownIdTouchesNothing ==
    \A p \in Sessions :
      (Loaded(p) /\ loc[p].sel \notin loc[p].gdf.ids /\ pc[p] # "lookup")
        => /\ pc[p] = "failed" /\ loc[p].err.kind = "NotFound"
           /\ loc[p].geom = None
           /\ ~hist[p].netq
           /\ hist[p].changed = {}
           /\ CurIdx = hist[p].idx0

\* C5 as amended: get_huc10_geometry of an id that is not in the index it
\* loaded ends with the not-found error and no geometry; when the call
\* found the index file it queried no service and wrote no file, and when
\* it found none it first queried the service and wrote the index file.
C5_UnknownIdNotFound ==
    \A p \in Sessions :
      (Loaded(p) /\ loc[p].sel \notin loc[p].gdf.ids /\ pc[p] # "lookup")
        => /\ pc[p] = "failed"
           /\ loc[p].err = [stage |-> "lookup", kind |-> "NotFound"]
           /\ loc[p].geom = None
           /\ hist[p].idx0 # <<>>
                => (~hist[p].netq /\ ~hist[p].idxw /\ hist[p].changed = {})
           /\ hist[p].idx0 = <<>>
                => (hist[p].netq /\ hist[p].idxw /\ hist[p].changed \subseteq {IndexPath})

\* C5 witness: an id the index does not hold was looked up in an index
\* read from the file and the call ended not-found.
C5_Witness ==
    \E p \in Sessions :
      /\ pc[p] = "failed" /\ loc[p].err.kind = "NotFound"
      /\ loc[p].sel = "not-a-real-id" /\ loc[p].gdf.ids = KnownIds
      /\ hist[p].via = "file" /\ hist[p].changed = {}

\* C6: get_huc10_geometry of an id in the index returns the polygon of that
\* id as the index was first written, expressed in the requested system,
\* whether the call built the index or read the file, and a call that read
\* the file left it as it was.
C6_ResolveKnownId ==
    \A p \in Sessions :
      (Loaded(p) /\ loc[p].sel \in loc[p].gdf.ids /\ pc[p] # "lookup")
        => /\ built # None
           /\ loc[p].geom = [kind |-> "geom", basin |-> loc[p].sel,
                             ver |-> built.ver, crs |-> loc[p].crs]
           /\ ~(pc[p] = "failed" /\ loc[p].err.stage = "lookup")
           /\ CurIdx = <<built>>
           /\ hist[p].via = "file" => CurIdx = hist[p].idx0

\* C6 witness: a resolve in the projected system answered from the file,
\* with the polygon first written, after the service's data changed.
C6_Witness ==
    \E p \in Sessions :
      /\ pc[p] = "done" /\ loc[p].entry = "resolve"
      /\ hist[p].via = "file" /\ loc[p].crs = CRS_UTM
      /\ loc[p].geom # None /\ loc[p].geom.crs = CRS_UTM
      /\ loc[p].geom.ver < wbdVer

\* C7: every query a fetcher sent carries the input polygon in CRS_GEO, and
\* every artifact a fetcher returned is in CRS_UTM.
C7_FetcherCRS ==
    \A p \in Sessions :
      /\ \A q \in hist[p].sent :
           /\ q.geom.crs = CRS_GEO
           /\ q.geom = [loc[p].geom EXCEPT !.crs = CRS_GEO]
      /\ \A s \in Sources :
           loc[p].art[s] # None
             => /\ loc[p].art[s].crs = CRS_UTM
                /\ loc[p].art[s].kind = s
                /\ loc[p].art[s].basin = loc[p].geom.basin
                /\ \E q \in hist[p].sent : q.src = s

\* C7 witness: the elevation fetcher, called with a polygon declared in
\* CRS_UTM, returned its raster.
C7_Witness ==
    \E p \in Sessions :
      /\ pc[p] = "done" /\ loc[p].entry = "fetch" /\ loc[p].crs = CRS_UTM
      /\ loc[p].geom.crs = CRS_UTM
      /\ loc[p].art["dem"] # None

\* C8: a download that succeeded returned the three paths of its id and the
\* files there hold its artifacts; when the download just before it was of
\* the same id, its artifacts and paths are those of that download and it
\* changed no file and made no directory.
C8_IdempotentPersistence ==
    \A p \in Sessions :
      Downloaded(p)
        => /\ \A s \in Sources :
                /\ loc[p].paths[s] = ExpectedPath(loc[p].sel, s)
                /\ ExpectedPath(loc[p].sel, s) \in DOMAIN fs
                /\ fs[ExpectedPath(loc[p].sel, s)] = loc[p].art[s]
           /\ (lastRun # None /\ lastRun.id = loc[p].sel)
                => /\ loc[p].art = lastRun.art
                   /\ loc[p].paths = lastRun.paths
                   /\ hist[p].changed = {}
                   /\ hist[p].made = {}

\* C8 witness: two downloads of one id in a row.
C8_Witness ==
    \E p \in Sessions :
      /\ Downloaded(p) /\ lastRun # None /\ lastRun.id = loc[p].sel
      /\ hist[p].invoked = SaveStages \cup {"make_huc_output_dir"}

\* C9 as claimed: the index file is written in full at most once.
C9_IndexWrittenOnce == ~indexRewritten

\* C10: a step changes the index file only if it is the write of
\* load_or_build_az_huc10_index, and changes another file only if it is a
\* save_* call and the file is one of the three of that call's own id.
C10_DisjointOwnership ==
    [][\A q \in Diff(fs, fs') :
         IF q = IndexPath
         THEN \E p \in Sessions : pc[p] = "idx_write" /\ pc'[p] # "idx_write"
         ELSE \E p \in Sessions :
                /\ pc[p] \in SaveStages /\ pc'[p] # pc[p]
                /\ \E s \in Sources : q = ExpectedPath(loc[p].sel, s)]_vars

\* C10 witness: a download succeeded while the output set of the other id,
\* persisted just before, and the index file are as they were.
C10_Witness ==
    \E p \in Sessions :
      /\ Downloaded(p) /\ lastRun # None /\ lastRun.id # loc[p].sel
      /\ \A s \in Sources : fs[lastRun.paths[s]] = lastRun.art[s]
      /\ CurIdx = <<built>>

====
